---- MODULE Spec2Model ----
(***************************************************************************)
(* hash-lock: resolution of an npm dependency tree, exhaustive enumeration *)
(* of the alternative trees, canonical serialization / hashing and the     *)
(* search for a tree by hash.                                              *)
(*                                                                         *)
(* The registry is the environment: a package is a name, its published     *)
(* versions are 1..latest, and a fetch answers ok or not ok.  What a       *)
(* published version declares never changes (DeclaredDependencies).        *)
(* An async generator is a record holding the place where it is suspended  *)
(* and its locals; resuming it is an operator that runs it to its next     *)
(* yield, its end or its throw, threading the state the traversal shares   *)
(* (metadataCache, treeCount).                                             *)
(***************************************************************************)
EXTENDS Integers, Sequences, FiniteSets, TLC

\* ------------------------------------------------------------- bounds
\* maxDepth arguments explored: 0..MaxDepthArg and the default.
MaxDepthArg == 0
\* maxTrees arguments explored: 0..MaxTreesArg and the default; findTreeByHash
\* is asked for the hash of one of the first MaxTreesArg candidates.
MaxTreesArg == 2

\* ------------------------------------------------- program constants
DefaultMaxDepth == 10
DefaultMaxTrees == 1000
ResolveAndHashMaxTrees == 1
TopVersions == 3

\* ------------------------------------------------------ the registry
Packages == {"A", "B", "C"}

\* localeCompare on the package names of the fixture
NameRank(n) == CASE n = "A" -> 1 [] n = "B" -> 2 [] n = "C" -> 3 [] OTHER -> 4

\* The versions a package has published at first, and can ever publish.
FirstPublished(p) == CASE p = "A" -> 2 [] p = "B" -> 4 [] OTHER -> 1

MaxPublished(p) == CASE p = "A" -> 2 [] p = "B" -> 4 [] OTHER -> 2

Range(lo, hi) == [lo |-> lo, hi |-> hi]
Dep(n, lo, hi) == [name |-> n, range |-> Range(lo, hi)]

\* PackageVersion.dependencies of name@version, in declaration order.
\*   A@1 -> B ^1 (B@1, B@2 are leaves): the two-candidate fixture
\*   A@2 -> B, C : a cross product, B with four matching versions
\*   B@3 -> C    : C is reached in two sibling branches of A@2
\*   B@4 -> A@2, C : a cycle; C is reached in two sibling branches of A@2
\*                   by the greedy resolver too
\*   C@1 -> B with a range nothing satisfies;  C@2 -> B@1
DeclaredDependencies(n, v) ==
    CASE n = "A" /\ v = 1 -> << Dep("B", 1, 2) >>
      [] n = "A" /\ v = 2 -> << Dep("B", 1, 4), Dep("C", 1, 2) >>
      [] n = "B" /\ v = 3 -> << Dep("C", 1, 2) >>
      [] n = "B" /\ v = 4 -> << Dep("A", 2, 2), Dep("C", 1, 2) >>
      [] n = "C" /\ v = 1 -> << Dep("B", 7, 9) >>
      [] n = "C" /\ v = 2 -> << Dep("B", 1, 1) >>
      [] OTHER -> << >>

\* PackageMetadata of a package whose versions 1..latest are published.
PackageMetadata(n, latest) ==
    [name |-> n,
     versions |-> [v \in 1..latest |-> [name |-> n, version |-> v,
                                        dependencies |-> DeclaredDependencies(n, v)]]]

VARIABLES
    registry,       \* the npm registry: package -> [ok, latest]
    metadataCache,  \* the module-level Map of part_002:21, as a set of PackageMetadata
    args,           \* packageName, version, maxDepth, maxTrees of the calls of this run
    op,             \* the top-level operation in progress or last finished
    targetHash,     \* findTreeByHash's targetHash
    gen,            \* the generator generateAllPossibleTrees returned
    treeCount,      \* treeCount.count of that generator
    treesExplored,  \* findTreeByHash's local counter
    outcome,        \* what the operation returned, threw, or "pending"
    emitted,        \* history: the trees the generator has yielded in this call
    fetches,        \* history: registry requests per package in this call
    failed,         \* history: packages whose request was answered not ok in this call
    startCache,     \* history: metadataCache when this call started
    clean,          \* history: the registry has not changed since this call started
    prev            \* history: the last fully drained enumeration the registry has not changed since

vars == << registry, metadataCache, args, op, targetHash, gen, treeCount,
           treesExplored, outcome, emitted, fetches, failed, startCache, clean, prev >>

\* ------------------------------------------------------------- trees
\* A JS Map is its entries in insertion order.
EmptyMap == << >>

MapHas(m, k) == \E i \in 1..Len(m) : m[i].key = k

MapGet(m, k) == (CHOOSE e \in {m[i] : i \in 1..Len(m)} : e.key = k).value

\* Map.prototype.set: a present key keeps its place
MapSet(m, k, v) ==
    IF MapHas(m, k)
    THEN [i \in 1..Len(m) |-> IF m[i].key = k THEN [key |-> k, value |-> v] ELSE m[i]]
    ELSE Append(m, [key |-> k, value |-> v])

MapKeys(m) == {m[i].key : i \in 1..Len(m)}

DependencyNode(n, v, deps) == [name |-> n, version |-> v, dependencies |-> deps]

createEmptyNode(n, v) == DependencyNode(n, v, EmptyMap)

ResolutionKey(n, v) == << n, v >>

\* ------------------------------------------- state one traversal shares
\* What the operators below thread through a traversal: the registry as it
\* answers now, the metadata cache, treeCount.count, the options of the
\* ExploreContext, and the history of requests.
Shared(reg, cache, count, maxDepth, maxTrees, fs, fl) ==
    [registry |-> reg, cache |-> cache, count |-> count,
     maxDepth |-> maxDepth, maxTrees |-> maxTrees, fetches |-> fs, failed |-> fl]

Return(v, s) == [k |-> "return", v |-> v, s |-> s]

Throw(e, s) == [k |-> "throw", v |-> e, s |-> s]

\* --------------------------------------------------- registry client
\* fetch(): response.ok is the registry's answer for the package; the body
\* of an ok response is the package's metadata.
fetchPackageMetadata(packageName, reg) ==
    IF ~reg[packageName].ok
    THEN [k |-> "throw", v |-> "FetchFailed"]
    ELSE [k |-> "return", v |-> PackageMetadata(packageName, reg[packageName].latest)]

\* semver.satisfies(version, range) for the ranges of the fixture
Satisfies(version, range) == range.lo <= version /\ version <= range.hi

\* sort((a, b) => semver.rcompare(a, b)): highest first
RECURSIVE SortDescending(_)
SortDescending(S) ==
    IF S = {} THEN << >>
    ELSE LET m == CHOOSE x \in S : \A y \in S : y <= x
         IN  << m >> \o SortDescending(S \ {m})

\* Mutant: the matching versions lowest first (compare for rcompare).
RECURSIVE SortAscending(_)
SortAscending(S) ==
    IF S = {} THEN << >>
    ELSE LET m == CHOOSE x \in S : \A y \in S : x <= y
         IN  << m >> \o SortAscending(S \ {m})

MatchingVersionsAscending(metadata, versionRange) ==
    SortAscending({v \in DOMAIN metadata.versions : Satisfies(v, versionRange)})

getMatchingVersions(metadata, versionRange) ==
    SortDescending({v \in DOMAIN metadata.versions : Satisfies(v, versionRange)})

\* ---------------------------------------------------- metadata cache
CacheHas(cache, packageName) == \E m \in cache : m.name = packageName

CacheGet(cache, packageName) == CHOOSE m \in cache : m.name = packageName

\* metadataCache.set(packageName, metadata)
CacheSet(cache, packageName, metadata) ==
    {m \in cache : m.name # packageName} \cup {metadata}

getCachedMetadata(packageName, s) ==
    IF CacheHas(s.cache, packageName)
    THEN Return(CacheGet(s.cache, packageName), s)
    ELSE LET r == fetchPackageMetadata(packageName, s.registry)
             asked == [s EXCEPT !.fetches[packageName] = @ + 1,
                                !.failed = IF s.registry[packageName].ok
                                           THEN @ ELSE @ \cup {packageName}]
         IN  IF r.k = "throw"
             THEN Throw(r.v, asked)
             ELSE Return(r.v, [asked EXCEPT !.cache = CacheSet(@, packageName, r.v)])

getDependencies(versionData) == versionData.dependencies

\* ---------------------------------------------------- greedy resolver
\* Mutant: the depth check alone, without resolving.has(resolutionKey).
ResolveStopsOnDepthOnly(depth, maxDepth, resolving, key) == depth > maxDepth

\* depth > maxDepth || resolving.has(resolutionKey)
ResolveStops(depth, maxDepth, resolving, key) == depth > maxDepth \/ key \in resolving

\* Mutant: the lowest matching version chosen.
Lowest(matchingVersions) == matchingVersions[Len(matchingVersions)]

\* matchingVersions[0]: the highest matching version.
Highest(matchingVersions) == matchingVersions[1]

RECURSIVE resolveDependencyTree(_, _, _, _, _)
RECURSIVE ResolveEach(_, _, _, _, _, _)

\* The loop of part_002:80-99 from entry i on; resolvedDeps is the Map so far.
ResolveEach(allDeps, i, resolvedDeps, depth, resolving, s) ==
    IF i > Len(allDeps) THEN Return(resolvedDeps, s)
    ELSE LET depName == allDeps[i].name
             depRange == allDeps[i].range
             m == getCachedMetadata(depName, s)
         IN  IF m.k = "throw"
             THEN ResolveEach(allDeps, i + 1, resolvedDeps, depth, resolving, m.s)
             ELSE LET matchingVersions == getMatchingVersions(m.v, depRange)
                  IN  IF Len(matchingVersions) = 0
                      THEN ResolveEach(allDeps, i + 1, resolvedDeps, depth, resolving, m.s)
                      ELSE LET r == resolveDependencyTree(depName, Highest(matchingVersions),
                                                          depth + 1, resolving, m.s)
                           IN  IF r.k = "throw"
                               THEN ResolveEach(allDeps, i + 1, resolvedDeps,
                                                depth, resolving, r.s)
                               ELSE ResolveEach(allDeps, i + 1,
                                                MapSet(resolvedDeps, depName, r.v),
                                                depth, resolving, r.s)

\* resolving is the content of the caller's Set; the callee works on its own
\* copy (new Set(resolving)), so its add and delete are not seen by the caller.
resolveDependencyTree(packageName, version, depth, resolving, s) ==
    IF ResolveStops(depth, s.maxDepth, resolving, ResolutionKey(packageName, version))
    THEN Return(createEmptyNode(packageName, version), s)
    ELSE LET m == getCachedMetadata(packageName, s)
         IN  IF m.k = "throw" THEN Throw(m.v, m.s)
             ELSE IF version \notin DOMAIN m.v.versions
             THEN Throw("VersionNotFound", m.s)
             ELSE LET r == ResolveEach(getDependencies(m.v.versions[version]), 1, EmptyMap,
                                       depth,
                                       resolving \cup {ResolutionKey(packageName, version)},
                                       m.s)
                  IN  Return(DependencyNode(packageName, version, r.v), r.s)

\* ------------------------------------------------ exhaustive generator
\* A generator object.  pc is where it is suspended:
\*   exploreTree: "start" (not yet run), "leaf" (at the yield of a placeholder,
\*     part_002:151/162/170), "loop" (at the yield of part_002:180);
\*   generateDependencyCombinations: "start", "empty" (at the yield of
\*     part_002:200), "skip" (inside the yield* of part_002:214), "inner" (at the
\*     yield of part_002:229), "catch" (inside the yield* of part_002:235).
\* A generator that has returned or thrown is Finished.
Finished == [fn |-> "finished"]

\* exploreTree(pkgName, pkgVersion, ctx) called, not yet resumed.  resolving is
\* the content of ctx.resolving, a Set no other generator writes.
NewExplore(pkgName, pkgVersion, depth, resolving) ==
    [fn |-> "exploreTree", pc |-> "start", pkgName |-> pkgName,
     pkgVersion |-> pkgVersion, depth |-> depth, resolving |-> resolving,
     combinations |-> Finished]

\* generateDependencyCombinations(depNames, allDeps, ctx) called, not yet
\* resumed.  depNames travels with its ranges (allDeps[depName]).  resolving is
\* the content of ctx.resolving while exploreTree is inside its try block.
NewCombinations(depNames, depth, resolving) ==
    [fn |-> "generateDependencyCombinations", pc |-> "start", depNames |-> depNames,
     depth |-> depth, resolving |-> resolving, versionsToExplore |-> << >>, i |-> 0,
     explore |-> Finished, resolvedDep |-> Finished, remaining |-> Finished]

Yield(v, g, s) == [k |-> "yield", v |-> v, g |-> g, s |-> s]

Done(s) == [k |-> "done", v |-> "undefined", g |-> Finished, s |-> s]

Thrown(e, s) == [k |-> "throw", v |-> e, g |-> Finished, s |-> s]

\* part_002:150
ExploreStops(depth, resolving, key, s) ==
    depth > s.maxDepth \/ s.count >= s.maxTrees \/ key \in resolving

\* part_002:176 and part_002:220
BudgetReached(s) == s.count >= s.maxTrees

\* Mutant: the trees of every depth counted against the budget.
CountEveryTree(depth, s) == [s EXCEPT !.count = @ + 1]

\* part_002:178
CountTree(depth, s) == IF depth = 0 THEN [s EXCEPT !.count = @ + 1] ELSE s

\* Mutant: every matching version explored.
NoSlice(versions, n) == versions

\* matchingVersions.slice(0, 3)
Slice(versions, n) == SubSeq(versions, 1, IF Len(versions) < n THEN Len(versions) ELSE n)

\* The name@version pairs the suspended generator g and the generators it is
\* pulling from hold in their own resolving Sets: each exploreTree suspended
\* inside its try block has added its own.
RECURSIVE OpenKeys(_)
OpenKeys(g) ==
    IF g.fn = "exploreTree"
    THEN IF g.pc = "loop"
         THEN {ResolutionKey(g.pkgName, g.pkgVersion)} \cup OpenKeys(g.combinations)
         ELSE {}
    ELSE IF g.fn = "generateDependencyCombinations"
    THEN OpenKeys(g.explore) \cup OpenKeys(g.remaining)
    ELSE {}

\* Mutant: the subtree of the current dependency adds to the Set of its parent
\* (resolving: ctx.resolving for new Set(ctx.resolving)).
LeakedResolving(resolving, explore) == resolving \cup OpenKeys(explore)

\* ctx.resolving as the remaining dependencies find it at part_002:226, while
\* the generator of the current dependency is suspended: that one works on the
\* copy of part_002:223, so the Set of the parent is as it was.
SiblingResolving(resolving, explore) == resolving

RECURSIVE NextExplore(_, _)
RECURSIVE ExploreLoop(_, _)
RECURSIVE NextCombinations(_, _)
RECURSIVE VersionLoop(_, _)
RECURSIVE DependencyLoop(_, _)
RECURSIVE RemainingLoop(_, _)
RECURSIVE Delegate(_, _)
RECURSIVE CatchError(_, _, _)
RECURSIVE ExploreBody(_, _)
RECURSIVE DependencyBody(_, _)
RECURSIVE RemainingBody(_, _)
RECURSIVE Delegated(_, _)

\* One next() of an exploreTree generator.
NextExplore(g, s) ==
    IF g.fn = "finished" \/ g.pc = "leaf" THEN Done(s)
    ELSE IF g.pc = "loop" THEN ExploreLoop(g, s)
    ELSE IF ExploreStops(g.depth, g.resolving, ResolutionKey(g.pkgName, g.pkgVersion), s)
    THEN Yield(createEmptyNode(g.pkgName, g.pkgVersion), [g EXCEPT !.pc = "leaf"], s)
    ELSE LET m == getCachedMetadata(g.pkgName, s)
         IN  IF m.k = "throw" THEN Thrown(m.v, m.s)
             ELSE IF g.pkgVersion \notin DOMAIN m.v.versions
             THEN Yield(createEmptyNode(g.pkgName, g.pkgVersion),
                        [g EXCEPT !.pc = "leaf"], m.s)
             ELSE LET allDeps == getDependencies(m.v.versions[g.pkgVersion])
                  IN  IF Len(allDeps) = 0
                      THEN Yield(createEmptyNode(g.pkgName, g.pkgVersion),
                                 [g EXCEPT !.pc = "leaf"], m.s)
                      ELSE ExploreLoop(
                             [g EXCEPT !.pc = "loop",
                                       !.combinations =
                                           NewCombinations(allDeps, g.depth,
                                               g.resolving \cup
                                               {ResolutionKey(g.pkgName, g.pkgVersion)})],
                             m.s)

\* The for await of part_002:175: pull the next combination.
ExploreLoop(g, s) == ExploreBody(g, NextCombinations(g.combinations, s))

\* part_002:175-185 for what the pull r gave: the end of the combinations, an
\* error (not caught: finally, then out), or a combination `dependencies`.
ExploreBody(g, r) ==
    IF r.k = "done" THEN Done(r.s)
    ELSE IF r.k = "throw" THEN Thrown(r.v, r.s)
    ELSE IF BudgetReached(r.s) THEN Done(r.s)
    ELSE Yield(DependencyNode(g.pkgName, g.pkgVersion, r.v),
               [g EXCEPT !.combinations = r.g],
               CountTree(g.depth, r.s))

\* One next() of a generateDependencyCombinations generator.
NextCombinations(g, s) ==
    IF g.fn = "finished" \/ g.pc = "empty" THEN Done(s)
    ELSE IF g.pc = "inner" THEN RemainingLoop(g, s)
    ELSE IF g.pc \in {"skip", "catch"} THEN Delegate(g, s)
    ELSE IF Len(g.depNames) = 0 THEN Yield(EmptyMap, [g EXCEPT !.pc = "empty"], s)
    ELSE LET currentDep == g.depNames[1]
             m == getCachedMetadata(currentDep.name, s)
         IN  IF m.k = "throw" THEN CatchError(g, m.v, m.s)
             ELSE LET versionsToExplore ==
                          Slice(getMatchingVersions(m.v, currentDep.range), TopVersions)
                  IN  IF Len(versionsToExplore) = 0
                      THEN Delegate([g EXCEPT !.pc = "skip",
                                              !.remaining = NewCombinations(Tail(g.depNames),
                                                                g.depth, g.resolving)], m.s)
                      ELSE VersionLoop([g EXCEPT !.versionsToExplore = versionsToExplore,
                                                 !.i = 1], m.s)

\* The for of part_002:219 at the start of the iteration for versionsToExplore[i].
VersionLoop(g, s) ==
    IF g.i > Len(g.versionsToExplore) \/ BudgetReached(s) THEN Done(s)
    ELSE DependencyLoop(
           [g EXCEPT !.explore = NewExplore(g.depNames[1].name, g.versionsToExplore[g.i],
                                            g.depth + 1, g.resolving)], s)

\* The for await of part_002:224: pull the next tree of the current dependency.
DependencyLoop(g, s) == DependencyBody(g, NextExplore(g.explore, s))

\* part_002:224-225 for what the pull r gave: the end of the trees of this
\* version, an error, or a tree `resolvedDep`.
DependencyBody(g, r) ==
    IF r.k = "done" THEN VersionLoop([g EXCEPT !.i = @ + 1, !.explore = Finished], r.s)
    ELSE IF r.k = "throw" THEN CatchError(g, r.v, r.s)
    ELSE RemainingLoop([g EXCEPT !.explore = r.g, !.resolvedDep = r.v,
                                 !.remaining = NewCombinations(Tail(g.depNames), g.depth,
                                                   SiblingResolving(g.resolving, r.g))], r.s)

\* The for await of part_002:226: pull the next combination of the remaining
\* dependencies and yield it with the current dependency set.
RemainingLoop(g, s) == RemainingBody(g, NextCombinations(g.remaining, s))

\* part_002:226-230 for what the pull r gave: the end of the remaining
\* combinations, an error, or a combination `remainingCombo`.
RemainingBody(g, r) ==
    IF r.k = "done" THEN DependencyLoop([g EXCEPT !.remaining = Finished], r.s)
    ELSE IF r.k = "throw" THEN CatchError(g, r.v, r.s)
    ELSE Yield(MapSet(r.v, g.depNames[1].name, g.resolvedDep),
               [g EXCEPT !.pc = "inner", !.remaining = r.g], r.s)

\* yield* generateDependencyCombinations(remainingDeps, allDeps, ctx), at
\* part_002:214 (inside the try) or part_002:235 (inside the catch).
Delegate(g, s) == Delegated(g, NextCombinations(g.remaining, s))

\* What the delegating generator does with what the delegate gave: its end
\* ends the delegating one too (part_002:215 returns; part_002:235 is the last
\* statement), its yield passes through, its error is caught only inside the try.
Delegated(g, r) ==
    IF r.k = "done" THEN Done(r.s)
    ELSE IF r.k = "yield" THEN Yield(r.v, [g EXCEPT !.remaining = r.g], r.s)
    ELSE IF g.pc = "skip" THEN CatchError(g, r.v, r.s)
    ELSE Thrown(r.v, r.s)

\* Mutant: no catch, the error leaves the generator.
Rethrow(g, error, s) == Thrown(error, s)

\* The catch of part_002:233-236 for an error thrown inside the try block:
\* the remaining dependencies are enumerated without the current one.
CatchError(g, error, s) ==
    Delegate([g EXCEPT !.pc = "catch", !.explore = Finished,
                       !.remaining = NewCombinations(Tail(g.depNames),
                                         g.depth, g.resolving)], s)

\* generateAllPossibleTrees(packageName, version, options, maxTrees): the
\* generator of part_002:119, with treeCount = { count: 0 }.
generateAllPossibleTrees(packageName, version) == NewExplore(packageName, version, 0, {})

\* Mutant: a counter that outlives the invocation.
KeepTreeCount(old) == old

\* const treeCount = { count: 0 }, whatever an earlier invocation counted
NewTreeCount(old) == 0

\* ------------------------------------------------ serializer / hasher
\* An entry put in its place in an array already sorted by name, after the
\* entries that do not compare greater (the sort is stable).
InsertByName(sorted, e) ==
    SelectSeq(sorted, LAMBDA x : NameRank(x.key) <= NameRank(e.key))
    \o << e >>
    \o SelectSeq(sorted, LAMBDA x : NameRank(x.key) > NameRank(e.key))

\* Mutant: the entries left in the insertion order of the Map.
KeepInsertionOrder(entries) == entries

\* Array.from(n.dependencies.entries()).sort(([a], [b]) => a.localeCompare(b)):
\* the entries, given in insertion order, sorted by ascending name.
RECURSIVE SortByName(_)
SortByName(entries) ==
    IF Len(entries) = 0 THEN << >>
    ELSE InsertByName(SortByName(SubSeq(entries, 1, Len(entries) - 1)),
                      entries[Len(entries)])

\* Mutant: one space for each level.
SingleSpaces(indent) == indent

\* '  '.repeat(indent), as its number of spaces.
Prefix(indent) == 2 * indent

\* A line is its prefix (a number of spaces) and `${name}@${version}`.
RECURSIVE serialize(_, _)
RECURSIVE SerializeEach(_, _, _)
SerializeEach(sortedDeps, i, indent) ==
    IF i > Len(sortedDeps) THEN << >>
    ELSE serialize(sortedDeps[i].value, indent) \o SerializeEach(sortedDeps, i + 1, indent)

serialize(n, indent) ==
    << [prefix |-> Prefix(indent), name |-> n.name, version |-> n.version] >>
    \o SerializeEach(SortByName(n.dependencies), 1, indent + 1)

\* parts.join('\n')
serializeTree(node) == serialize(node, 0)

\* The digest is taken to be collision free: it is its input and the algorithm.
hashTree(node, algorithm) == [algorithm |-> algorithm, digest |-> serializeTree(node)]

\* ---------------------------------------------------------- the calls
\* A generator consumed to its end from shared state s: what it yields, how it
\* ends, and the state it leaves.
RECURSIVE Drain(_, _, _)
Drain(g, s, acc) ==
    LET r == NextExplore(g, s)
    IN  IF r.k = "yield" THEN Drain(r.g, r.s, Append(acc, r.v))
        ELSE [trees |-> acc, k |-> r.k, s |-> r.s]

NoRequests == [p \in Packages |-> 0]

NoOutcome == [k |-> "none"]

Pending == [k |-> "pending"]

NoPrev == [valid |-> FALSE, trees |-> << >>]

NoHash == [algorithm |-> "none", digest |-> << >>]

MaxDepths == (0..MaxDepthArg) \cup {DefaultMaxDepth}

MaxTreesChoices == (0..MaxTreesArg) \cup {DefaultMaxTrees}

\* The roots asked for; A@3 is never published, C@2 not at first.
Roots ==
    {[packageName |-> "A", version |-> 1], [packageName |-> "A", version |-> 2],
     [packageName |-> "A", version |-> 3], [packageName |-> "B", version |-> 4],
     [packageName |-> "C", version |-> 1], [packageName |-> "C", version |-> 2]}

Arguments ==
    {[packageName |-> r.packageName, version |-> r.version,
      maxDepth |-> d, maxTrees |-> k] : r \in Roots, d \in MaxDepths, k \in MaxTreesChoices}

InitialRegistry == [p \in Packages |-> [ok |-> TRUE, latest |-> FirstPublished(p)]]

\* The shared state a traversal of the current call starts from.
Current(maxTrees) ==
    Shared(registry, metadataCache, treeCount, args.maxDepth, maxTrees, fetches, failed)

Init ==
    /\ registry = InitialRegistry
    /\ metadataCache = {}
    /\ args \in Arguments
    /\ op = "none"
    /\ targetHash = NoHash
    /\ gen = Finished
    /\ treeCount = 0
    /\ treesExplored = 0
    /\ outcome = NoOutcome
    /\ emitted = << >>
    /\ fetches = NoRequests
    /\ failed = {}
    /\ startCache = {}
    /\ clean = TRUE
    /\ prev = NoPrev

\* What every top-level call does to the history when it starts.  The locals
\* of an earlier findTreeByHash (targetHash, treesExplored) are gone by then:
\* each call sets them anew.
Begin(operation) ==
    /\ outcome.k # "pending"
    /\ op' = operation
    /\ startCache' = metadataCache
    /\ clean' = TRUE
    /\ prev' = IF op = "generateAllPossibleTrees" /\ outcome.k = "done" /\ clean
               THEN [valid |-> TRUE, trees |-> emitted]
               ELSE prev

\* What one resumption leaves in the state the traversal shares.
Leave(s) ==
    /\ metadataCache' = s.cache
    /\ treeCount' = s.count
    /\ fetches' = s.fetches
    /\ failed' = s.failed

\* A caller obtains the generator of generateAllPossibleTrees(name, version,
\* {maxDepth}, maxTrees).
CallGenerateAllPossibleTrees ==
    /\ Begin("generateAllPossibleTrees")
    /\ gen' = generateAllPossibleTrees(args.packageName, args.version)
    /\ treeCount' = NewTreeCount(treeCount)
    /\ outcome' = Pending
    /\ emitted' = << >>
    /\ fetches' = NoRequests
    /\ failed' = {}
    /\ targetHash' = NoHash
    /\ treesExplored' = 0
    /\ UNCHANGED << registry, metadataCache, args >>

\* The caller's next() on that generator.
PullNext ==
    /\ op = "generateAllPossibleTrees" /\ outcome = Pending
    /\ LET r == NextExplore(gen, Current(args.maxTrees))
       IN  /\ Leave(r.s)
           /\ gen' = r.g
           /\ emitted' = IF r.k = "yield" THEN Append(emitted, r.v) ELSE emitted
           /\ outcome' = CASE r.k = "yield" -> Pending
                           [] r.k = "done" -> [k |-> "done"]
                           [] OTHER -> [k |-> "error", error |-> r.v]
    /\ UNCHANGED << registry, args, op, targetHash, treesExplored, startCache, clean, prev >>

\* The caller stops pulling: return() on the suspended generator.
StopPulling ==
    /\ op = "generateAllPossibleTrees" /\ outcome = Pending
    /\ gen' = Finished
    /\ outcome' = [k |-> "closed"]
    /\ UNCHANGED << registry, metadataCache, args, op, targetHash, treeCount, treesExplored,
                    emitted, fetches, failed, startCache, clean, prev >>

\* Mutant: the counter incremented after the comparison.
ExamineThenCount(tree, explored, target) ==
    LET hash == hashTree(tree, "sha256")
    IN  IF hash = target
        THEN [treesExplored |-> explored,
              outcome |-> [k |-> "found", tree |-> tree, hash |-> hash,
                           treesExplored |-> explored]]
        ELSE [treesExplored |-> explored + 1, outcome |-> Pending]

\* index.ts:68-78 for the candidate just pulled: the counter and the result, if any.
Examine(tree, explored, target) ==
    LET hash == hashTree(tree, "sha256")
    IN  IF hash = target
        THEN [treesExplored |-> explored + 1,
              outcome |-> [k |-> "found", tree |-> tree, hash |-> hash,
                           treesExplored |-> explored + 1]]
        ELSE [treesExplored |-> explored + 1, outcome |-> Pending]

\* The hashes a search is asked for: those of the first candidates of the
\* root as the registry stands, and one no tree has.
TargetHashes ==
    LET all == Drain(generateAllPossibleTrees(args.packageName, args.version),
                     Shared(registry, metadataCache, 0, args.maxDepth, DefaultMaxTrees,
                            NoRequests, {}), << >>).trees
    IN  {hashTree(all[i], "sha256") : i \in 1..Len(all) \cap 1..MaxTreesArg}
        \cup {hashTree(createEmptyNode("none", 0), "sha256")}

\* findTreeByHash(name, version, targetHash, {maxTrees, maxDepth}) up to its
\* first await.
CallFindTreeByHash ==
    /\ Begin("findTreeByHash")
    /\ \E target \in TargetHashes : targetHash' = target
    /\ gen' = generateAllPossibleTrees(args.packageName, args.version)
    /\ treeCount' = NewTreeCount(treeCount)
    /\ treesExplored' = 0
    /\ outcome' = Pending
    /\ emitted' = << >>
    /\ fetches' = NoRequests
    /\ failed' = {}
    /\ UNCHANGED << registry, metadataCache, args >>

\* Mutant: exhaustion reported as an error.
NotFoundError == [k |-> "error", error |-> "NotFound"]

\* index.ts:81: return null
NotFound == [k |-> "null"]

\* One turn of the for await of index.ts:67.
FindStep ==
    /\ op = "findTreeByHash" /\ outcome = Pending
    /\ LET r == NextExplore(gen, Current(args.maxTrees))
           x == Examine(r.v, treesExplored, targetHash)
       IN  /\ Leave(r.s)
           /\ emitted' = IF r.k = "yield" THEN Append(emitted, r.v) ELSE emitted
           /\ treesExplored' = IF r.k = "yield" THEN x.treesExplored ELSE treesExplored
           /\ outcome' = CASE r.k = "yield" -> x.outcome
                           [] r.k = "done" -> NotFound
                           [] OTHER -> [k |-> "error", error |-> r.v]
           /\ gen' = IF r.k = "yield" /\ x.outcome = Pending THEN r.g ELSE Finished
    /\ UNCHANGED << registry, args, op, targetHash, startCache, clean, prev >>

\* resolveAndHash(name, version, {maxDepth}): the first tree of a generator
\* with maxTrees = 1, hashed.
ResolveAndHash ==
    /\ Begin("resolveAndHash")
    /\ LET r == NextExplore(generateAllPossibleTrees(args.packageName, args.version),
                            Shared(registry, metadataCache, NewTreeCount(treeCount),
                                   args.maxDepth, ResolveAndHashMaxTrees, NoRequests, {}))
       IN  /\ Leave(r.s)
           /\ emitted' = IF r.k = "yield" THEN << r.v >> ELSE << >>
           /\ outcome' = CASE r.k = "yield" ->
                                [k |-> "tree", tree |-> r.v, hash |-> hashTree(r.v, "sha256")]
                           [] r.k = "done" -> [k |-> "error", error |-> "FailedToResolve"]
                           [] OTHER -> [k |-> "error", error |-> r.v]
    /\ gen' = Finished
    /\ targetHash' = NoHash
    /\ treesExplored' = 0
    /\ UNCHANGED << registry, args >>

\* resolveDependencyTree(name, version, {maxDepth}) called from outside.
ResolveDependencyTree ==
    /\ Begin("resolveDependencyTree")
    /\ LET r == resolveDependencyTree(args.packageName, args.version, 0, {},
                    Shared(registry, metadataCache, treeCount, args.maxDepth,
                           args.maxTrees, NoRequests, {}))
       IN  /\ Leave(r.s)
           /\ outcome' = IF r.k = "return" THEN [k |-> "node", tree |-> r.v]
                         ELSE [k |-> "error", error |-> r.v]
    /\ emitted' = << >>
    /\ gen' = Finished
    /\ targetHash' = NoHash
    /\ treesExplored' = 0
    /\ UNCHANGED << registry, args >>

\* ---------------------------------------------------- the environment
\* Between two calls the registry changes: a package publishes its next
\* version, ...
Publish ==
    /\ outcome.k # "pending"
    /\ \E p \in Packages :
         /\ registry[p].latest < MaxPublished(p)
         /\ registry' = [registry EXCEPT ![p].latest = @ + 1]
    /\ clean' = FALSE
    /\ prev' = NoPrev
    /\ UNCHANGED << metadataCache, args, op, targetHash, gen, treeCount, treesExplored,
                    outcome, emitted, fetches, failed, startCache >>

\* ... the requests for one package start being answered not ok, ...
Outage ==
    /\ outcome.k # "pending"
    /\ \A q \in Packages : registry[q].ok
    /\ \E p \in Packages :
         /\ registry[p].ok
         /\ registry' = [registry EXCEPT ![p].ok = FALSE]
    /\ clean' = FALSE
    /\ prev' = NoPrev
    /\ UNCHANGED << metadataCache, args, op, targetHash, gen, treeCount, treesExplored,
                    outcome, emitted, fetches, failed, startCache >>

\* ... or are answered ok again.  This may happen while a call is in progress;
\* the other two changes need not be taken there, since a call sees the
\* registry only in the first answer it gets for a package that is ok (the
\* answer is cached), so an outage or a publication before that answer is
\* the same to it as one before the call.
Recover ==
    /\ \E p \in Packages :
         /\ ~registry[p].ok
         /\ registry' = [registry EXCEPT ![p].ok = TRUE]
    /\ clean' = FALSE
    /\ prev' = NoPrev
    /\ UNCHANGED << metadataCache, args, op, targetHash, gen, treeCount, treesExplored,
                    outcome, emitted, fetches, failed, startCache >>

Next ==
    \/ CallGenerateAllPossibleTrees
    \/ PullNext
    \/ StopPulling
    \/ CallFindTreeByHash
    \/ FindStep
    \/ ResolveAndHash
    \/ ResolveDependencyTree
    \/ Publish
    \/ Outage
    \/ Recover

Spec == Init /\ [][Next]_vars

\* The calls on the roots that lie on the dependency cycle A@2 -> B@4 -> A@2,
\* by the greedy resolver and by a consumer that drains the generator: it keeps
\* calling next() until the generator is done.
CycleArguments == {a \in Arguments : a.packageName \in {"A", "B"} /\ a.version \in {2, 4}}

CycleInit ==
    /\ Init
    /\ args \in CycleArguments

CycleNext ==
    \/ CallGenerateAllPossibleTrees
    \/ PullNext
    \/ ResolveDependencyTree
    \/ Publish
    \/ Outage
    \/ Recover

\* Weak fairness of PullNext, with ENABLED <<PullNext>>_vars written out: next()
\* can be called exactly while the call is pending, and it always changes the
\* state (it appends to emitted or settles outcome).
DrainFairness ==
    \/ []<>(~(op = "generateAllPossibleTrees" /\ outcome = Pending))
    \/ []<><<PullNext>>_vars

CycleSpec == CycleInit /\ [][CycleNext]_vars /\ DrainFairness

\* ============================================================ claims
\* The generator runs in these three operations.
UsesGenerator == op \in {"generateAllPossibleTrees", "findTreeByHash", "resolveAndHash"}

\* The maxTrees the generator of the current call was given.
Budget == IF op = "resolveAndHash" THEN ResolveAndHashMaxTrees ELSE args.maxTrees

\* The trees the current call has produced.
Produced ==
    {emitted[i] : i \in 1..Len(emitted)}
    \cup (IF outcome.k = "node" THEN {outcome.tree} ELSE {})

\* What getCachedMetadata answers for a package during the current call, as
\* long as the registry is as the call found it (a cache entry is never
\* replaced).
Known(packageName) ==
    CacheHas(metadataCache, packageName) \/ (clean /\ registry[packageName].ok)

Lookup(packageName) ==
    IF CacheHas(metadataCache, packageName) THEN CacheGet(metadataCache, packageName)
    ELSE PackageMetadata(packageName, registry[packageName].latest)

Children(node) == {node.dependencies[i].value : i \in 1..Len(node.dependencies)}

\* ---- C1
\* C1: an invocation of generateAllPossibleTrees with maxTrees = k yields at
\* most k trees, for every k >= 0 and every root.
C1_BudgetRespected == UsesGenerator => Len(emitted) <= Budget

\* ---- C2
\* The metadata the call obtained for its root does not list the version asked for.
RootVersionAbsent ==
    /\ CacheHas(metadataCache, args.packageName)
    /\ args.version \notin DOMAIN CacheGet(metadataCache, args.packageName).versions

\* C2: resolving a root whose version its metadata does not list ends in a
\* version-not-found error, for resolveDependencyTree and for resolveAndHash:
\* no tree and no hash is returned.
C2_AbsentRootVersionIsAnError ==
    (op \in {"resolveDependencyTree", "resolveAndHash"} /\ RootVersionAbsent)
        => outcome = [k |-> "error", error |-> "VersionNotFound"]

\* ---- C3
\* Every node whose name@version is open on its path from the root has no children.
RECURSIVE ReentryIsLeaf(_, _)
ReentryIsLeaf(node, open) ==
    IF ResolutionKey(node.name, node.version) \in open
    THEN node.dependencies = EmptyMap
    ELSE \A c \in Children(node) :
             ReentryIsLeaf(c, open \cup {ResolutionKey(node.name, node.version)})

RECURSIVE HasReentry(_, _)
HasReentry(node, open) ==
    \/ ResolutionKey(node.name, node.version) \in open
    \/ \E c \in Children(node) :
           HasReentry(c, open \cup {ResolutionKey(node.name, node.version)})

\* C3: on a registry with a dependency cycle a call that keeps being resumed
\* finishes, and in every tree produced (by the greedy resolver or by the
\* generator) a node that re-enters a name@version open on its path is a leaf.
C3_CycleTermination ==
    /\ [](\A tree \in Produced : ReentryIsLeaf(tree, {}))
    /\ (outcome = Pending) ~> (outcome # Pending)

C3_Witness ==
    /\ op = "generateAllPossibleTrees" /\ outcome.k = "done"
    /\ args.maxDepth = DefaultMaxDepth
    /\ \E tree \in Produced : HasReentry(tree, {})

\* ---- C4
\* C4: findTreeByHash returns the first candidate, in the order the generator
\* yields them, whose hash is targetHash; treesExplored is its position and
\* nothing was pulled after it.  For A@1 -> B (2 and 1 match) the tree with
\* B@1 is found with treesExplored = 2.
C4_FirstMatch ==
    (op = "findTreeByHash" /\ outcome.k = "found") =>
        /\ outcome.treesExplored = Len(emitted)
        /\ outcome.treesExplored = treesExplored
        /\ outcome.tree = emitted[Len(emitted)]
        /\ outcome.hash = targetHash
        /\ hashTree(outcome.tree, "sha256") = targetHash
        /\ \A i \in 1..(Len(emitted) - 1) : hashTree(emitted[i], "sha256") # targetHash
        /\ (/\ args.packageName = "A" /\ args.version = 1
            /\ targetHash = hashTree(DependencyNode("A", 1,
                                MapSet(EmptyMap, "B", createEmptyNode("B", 1))), "sha256"))
               => outcome.treesExplored = 2

C4_Witness ==
    /\ op = "findTreeByHash" /\ outcome.k = "found"
    /\ args.packageName = "A" /\ args.version = 1
    /\ outcome.treesExplored = 2
    /\ MapGet(outcome.tree.dependencies, "B").version = 1

\* ---- C5
\* C5: two invocations of generateAllPossibleTrees on the same root with the
\* same options, drained while the registry stays as it is, yield the same
\* trees in the same order, whatever calls ran before and between them.
C5_Determinism ==
    (op = "generateAllPossibleTrees" /\ outcome.k = "done" /\ clean /\ prev.valid)
        => emitted = prev.trees

C5_Witness ==
    /\ op = "generateAllPossibleTrees" /\ outcome.k = "done" /\ clean /\ prev.valid
    /\ Len(emitted) >= 2
    /\ startCache # {}

\* ---- C6
\* t1 comes before t2 in the lexicographic order of the version choices: at
\* the first dependency, in declaration order, whose subtrees differ, t1 has
\* the higher version, or the same version and the earlier subtree.
RECURSIVE Precedes(_, _)
RECURSIVE PrecedesFrom(_, _, _, _)
PrecedesFrom(deps, i, t1, t2) ==
    IF i > Len(deps) THEN FALSE
    ELSE LET d == deps[i].name
             in1 == MapHas(t1.dependencies, d)
             in2 == MapHas(t2.dependencies, d)
         IN  IF ~in1 /\ ~in2 THEN PrecedesFrom(deps, i + 1, t1, t2)
             ELSE IF in1 # in2 THEN FALSE
             ELSE LET c1 == MapGet(t1.dependencies, d)
                      c2 == MapGet(t2.dependencies, d)
                  IN  IF c1 = c2 THEN PrecedesFrom(deps, i + 1, t1, t2)
                      ELSE \/ c1.version > c2.version
                           \/ c1.version = c2.version /\ Precedes(c1, c2)

Precedes(t1, t2) ==
    /\ t1.name = t2.name /\ t1.version = t2.version
    /\ PrecedesFrom(DeclaredDependencies(t1.name, t1.version), 1, t1, t2)

\* C6: the candidates are yielded in lexicographic order of the version
\* choices, the first declared dependency varying slowest and each
\* dependency's versions descending; A@1 -> B (2 and 1 match), drained with a
\* budget of at least two, yields exactly the tree with B@2 and then the tree
\* with B@1.
C6_EnumerationOrder ==
    UsesGenerator =>
        /\ \A i, j \in 1..Len(emitted) : i < j => Precedes(emitted[i], emitted[j])
        /\ (/\ op = "generateAllPossibleTrees" /\ outcome.k = "done"
            /\ args.packageName = "A" /\ args.version = 1
            /\ CacheHas(metadataCache, "B") /\ args.maxTrees >= 2)
               => /\ Len(emitted) = 2
                  /\ MapKeys(emitted[1].dependencies) = {"B"}
                  /\ MapGet(emitted[1].dependencies, "B").version = 2
                  /\ MapGet(emitted[2].dependencies, "B").version = 1
                  /\ emitted[2] = [emitted[1] EXCEPT
                                     !.dependencies[1].value.version = 1]

C6_Witness ==
    /\ op = "generateAllPossibleTrees" /\ outcome.k = "done"
    /\ args.packageName = "A" /\ args.version = 2
    /\ Len(emitted) = 10

\* ---- C7
\* Every node deeper than maxDepth is a leaf.
RECURSIVE DeepNodesAreLeaves(_, _, _)
DeepNodesAreLeaves(node, depth, maxDepth) ==
    /\ depth > maxDepth => node.dependencies = EmptyMap
    /\ \A c \in Children(node) : DeepNodesAreLeaves(c, depth + 1, maxDepth)

\* The root's version is listed and one of its declared ranges matches a
\* version of a package whose metadata can be had.
RootHasResolvableDependency ==
    /\ Known(args.packageName)
    /\ args.version \in DOMAIN Lookup(args.packageName).versions
    /\ \E i \in 1..Len(DeclaredDependencies(args.packageName, args.version)) :
         LET d == DeclaredDependencies(args.packageName, args.version)[i]
         IN  Known(d.name) /\ Len(getMatchingVersions(Lookup(d.name), d.range)) > 0

\* C7: in every tree produced with ceiling maxDepth a node deeper than
\* maxDepth is a leaf; with maxDepth = 0 a root with a resolvable dependency
\* has children, all of them leaves.
C7_DepthBound ==
    \A tree \in Produced :
        /\ DeepNodesAreLeaves(tree, 0, args.maxDepth)
        /\ (args.maxDepth = 0 /\ RootHasResolvableDependency)
               => /\ tree.dependencies # EmptyMap
                  /\ \A c \in Children(tree) : c.dependencies = EmptyMap

\* ---- C8
\* C8: every top-level call starts with an empty metadata cache.
C8_CacheScopedToCall == op # "none" => startCache = {}

\* ---- C9
\* C9: within one top-level call the registry is asked at most once for each
\* package, whether the request succeeds or fails.
C9_OneFetchPerPackage == \A p \in Packages : fetches[p] <= 1

\* ---- C10
\* C10: a call that runs the generator ends in an error exactly when the
\* request for the root package's metadata failed: the failed root request
\* aborts it with that error and yields no result, and a failed request for
\* any other package does not abort it.
C10_OnlyRootFetchFailureAborts ==
    UsesGenerator =>
        /\ args.packageName \in failed
               => outcome = [k |-> "error", error |-> "FetchFailed"]
        /\ args.packageName \notin failed => outcome.k # "error"

C10_Witness ==
    /\ op = "findTreeByHash"
    /\ args.packageName \in failed
    /\ outcome = [k |-> "error", error |-> "FetchFailed"]
    /\ emitted = << >>

\* ---- C11
\* Every array holding the entries of S, each once.
RECURSIVE Orders(_)
Orders(S) ==
    IF S = {} THEN {<< >>}
    ELSE UNION {{<< e >> \o rest : rest \in Orders(S \ {e})} : e \in S}

\* Every tree with the nodes and the children of `node`, the children Map of
\* each node built in every insertion order.
RECURSIVE Representations(_)
Representations(node) ==
    LET n == Len(node.dependencies)
        reps == [i \in 1..n |-> Representations(node.dependencies[i].value)]
        choices == {f \in [1..n -> UNION {reps[i] : i \in 1..n}] :
                        \A i \in 1..n : f[i] \in reps[i]}
    IN  {DependencyNode(node.name, node.version, o) :
            o \in UNION {Orders({[key |-> node.dependencies[i].key, value |-> f[i]] :
                                     i \in 1..n}) : f \in choices}}

\* C11: serializeTree, and so hashTree, gives the same result for every
\* insertion order of the children Maps at every node of a tree.
C11_HashStability ==
    \A tree \in Produced : \A rep \in Representations(tree) :
        /\ serializeTree(rep) = serializeTree(tree)
        /\ hashTree(rep, "sha256") = hashTree(tree, "sha256")

C11_Witness ==
    /\ op = "resolveAndHash" /\ outcome.k = "tree"
    /\ \E rep \in Representations(outcome.tree) :
           /\ rep # outcome.tree
           /\ hashTree(rep, "sha256") = outcome.hash

\* ---- C12
\* No candidate pulled in the current call has the hash asked for.
NoneMatches == \A i \in 1..Len(emitted) : hashTree(emitted[i], "sha256") # targetHash

\* The whole enumeration of the current call's generator, from the cache the
\* call started with and the registry as it stands.
WholeEnumeration ==
    Drain(generateAllPossibleTrees(args.packageName, args.version),
          Shared(registry, startCache, 0, args.maxDepth, args.maxTrees, NoRequests, {}),
          << >>)

\* C12: a finished findTreeByHash has returned null exactly when its
\* generator ended without an error and no candidate it yielded hashes to
\* targetHash; the candidates are then all the generator has to give (its
\* budget or its search space is exhausted), and null is not an error.
C12_NotFoundIsNull ==
    (op = "findTreeByHash" /\ outcome # Pending) =>
        /\ outcome.k = "null" <=> (args.packageName \notin failed /\ NoneMatches)
        /\ (outcome.k = "null" /\ clean) =>
               /\ WholeEnumeration.k = "done"
               /\ WholeEnumeration.trees = emitted

C12_Witness ==
    /\ op = "findTreeByHash" /\ outcome.k = "null"
    /\ Len(emitted) >= 2
    /\ args.maxTrees = DefaultMaxTrees

\* ---- C13
\* The nodes of a tree.
RECURSIVE Nodes(_)
Nodes(node) == {node} \cup UNION {Nodes(c) : c \in Children(node)}

\* The dependencies the version of a node declares.
Declared(node) ==
    {DeclaredDependencies(node.name, node.version)[i] :
        i \in 1..Len(DeclaredDependencies(node.name, node.version))}

\* The metadata the call holds for the dependency lists no version in its range.
NoVersionMatches(d) ==
    /\ CacheHas(metadataCache, d.name)
    /\ Len(getMatchingVersions(CacheGet(metadataCache, d.name), d.range)) = 0

\* C13: in every candidate of an invocation a dependency whose range matches
\* no known version is absent from the children of the node declaring it, and
\* a dependency of the root whose request failed in this invocation (the root
\* is the node at which its dependencies are requested first) is absent from
\* the root's children; neither case aborts the enumeration.
C13_DroppedDependencies ==
    UsesGenerator =>
        /\ \A i \in 1..Len(emitted) :
              /\ \A d \in Declared(emitted[i]) :
                     d.name \in failed => ~MapHas(emitted[i].dependencies, d.name)
              /\ \A node \in Nodes(emitted[i]) : \A d \in Declared(node) :
                     NoVersionMatches(d) => ~MapHas(node.dependencies, d.name)
        /\ args.packageName \notin failed => outcome.k # "error"

\* ---- C14
\* version is one of the TopVersions highest versions of the metadata that
\* match the range.
AmongHighest(version, metadata, range) ==
    /\ version \in DOMAIN metadata.versions
    /\ Satisfies(version, range)
    /\ Cardinality({w \in DOMAIN metadata.versions :
                        Satisfies(w, range) /\ w > version}) < TopVersions

\* C14: in every candidate each child entry of a node is a dependency the
\* node's version declares, and the child's version is one of the three
\* highest versions, of the metadata the invocation holds, that match the
\* declared range.
C14_BranchingCap ==
    UsesGenerator =>
        \A i \in 1..Len(emitted) : \A node \in Nodes(emitted[i]) :
            \A j \in 1..Len(node.dependencies) :
                \E d \in Declared(node) :
                    /\ d.name = node.dependencies[j].key
                    /\ node.dependencies[j].value.name = d.name
                    /\ CacheHas(metadataCache, d.name)
                    /\ AmongHighest(node.dependencies[j].value.version,
                                    CacheGet(metadataCache, d.name), d.range)

\* A drained enumeration of A@2, whose range for B matches four versions: the
\* third highest has been a child.
C14_Witness ==
    /\ op = "generateAllPossibleTrees" /\ outcome.k = "done"
    /\ args.packageName = "A" /\ args.version = 2
    /\ CacheHas(metadataCache, "B")
    /\ Len(getMatchingVersions(CacheGet(metadataCache, "B"), Range(1, 4))) = 4
    /\ \E i \in 1..Len(emitted) :
           /\ MapHas(emitted[i].dependencies, "B")
           /\ MapGet(emitted[i].dependencies, "B").version = 2

\* ---- C15
\* The metadata the call holds lists the node's version.
KnownVersion(node) ==
    /\ CacheHas(metadataCache, node.name)
    /\ node.version \in DOMAIN CacheGet(metadataCache, node.name).versions

\* The metadata the call holds for the dependency lists a version in its range.
Resolvable(d) ==
    /\ CacheHas(metadataCache, d.name)
    /\ Len(getMatchingVersions(CacheGet(metadataCache, d.name), d.range)) > 0

\* Every node within maxDepth whose name@version is not that of one of its
\* ancestors (open) has a child for each resolvable dependency it declares.
RECURSIVE ExpandedOffCycle(_, _, _)
ExpandedOffCycle(node, depth, open) ==
    \/ ResolutionKey(node.name, node.version) \in open
    \/ depth > args.maxDepth
    \/ /\ KnownVersion(node) =>
              \A d \in Declared(node) : Resolvable(d) => MapHas(node.dependencies, d.name)
       /\ \A c \in Children(node) :
              ExpandedOffCycle(c, depth + 1,
                               open \cup {ResolutionKey(node.name, node.version)})

\* C15: with the registry answering the same throughout, in every tree of the
\* greedy resolver and every candidate of a generator with a budget of at
\* least one, a node within maxDepth is without a child it could have only
\* if its name@version is that of one of its own ancestors: what is open in a
\* sibling branch truncates nothing.
C15_NoLeakAcrossSiblings ==
    (clean /\ (op = "resolveDependencyTree" \/ (UsesGenerator /\ Budget >= 1)))
        => \A tree \in Produced : ExpandedOffCycle(tree, 0, {})

\* A candidate of A@2 in which C, at one version, is a child of the root and
\* of the root's child B, and has children in both places.
C15_Witness ==
    /\ op = "generateAllPossibleTrees" /\ clean
    /\ \E i \in 1..Len(emitted) :
          /\ MapHas(emitted[i].dependencies, "B") /\ MapHas(emitted[i].dependencies, "C")
          /\ MapHas(MapGet(emitted[i].dependencies, "B").dependencies, "C")
          /\ MapGet(MapGet(emitted[i].dependencies, "B").dependencies, "C")
                 = MapGet(emitted[i].dependencies, "C")
          /\ MapGet(emitted[i].dependencies, "C").dependencies # EmptyMap

\* ---- C16
\* No node has the name@version of one of its ancestors (open).
RECURSIVE NoRepeatOnPath(_, _)
NoRepeatOnPath(node, open) ==
    /\ ResolutionKey(node.name, node.version) \notin open
    /\ \A c \in Children(node) :
           NoRepeatOnPath(c, open \cup {ResolutionKey(node.name, node.version)})

\* C16 as stated: in every tree produced no root-to-leaf path contains the
\* same name@version pair twice.
C16_NoPairTwiceOnPath == \A tree \in Produced : NoRepeatOnPath(tree, {})

\* No node with children has the name@version of one of its ancestors (open).
RECURSIVE InnerNodesDistinct(_, _)
InnerNodesDistinct(node, open) ==
    \/ node.dependencies = EmptyMap
    \/ /\ ResolutionKey(node.name, node.version) \notin open
       /\ \A c \in Children(node) :
              InnerNodesDistinct(c, open \cup {ResolutionKey(node.name, node.version)})

\* C16 amended: on every root-to-leaf path of every tree produced the nodes
\* that have children carry pairwise different name@version pairs; a pair is
\* repeated only by the leaf that ends the path, the placeholder put where
\* the path would re-enter it.
C16_NoExpandedPairTwiceOnPath == \A tree \in Produced : InnerNodesDistinct(tree, {})

C16_Witness ==
    /\ op = "resolveDependencyTree" /\ outcome.k = "node"
    /\ ~NoRepeatOnPath(outcome.tree, {})

\* ---- C17
\* The number of trees the claim gives to name@version at `depth` under the
\* ancestors `open`, from the metadata the call holds: one for a node that is
\* not expanded, else the product, over the resolvable dependencies, of the
\* sum, over the dependency's three highest matching versions, of the number
\* for that dependency at that version.
RECURSIVE CandidateCount(_, _, _, _)
RECURSIVE ProductFrom(_, _, _, _)
RECURSIVE SumFrom(_, _, _, _, _)
CandidateCount(name, version, depth, open) ==
    IF \/ ResolutionKey(name, version) \in open
       \/ depth > args.maxDepth
       \/ ~KnownVersion(createEmptyNode(name, version))
    THEN 1
    ELSE ProductFrom(DeclaredDependencies(name, version), 1, depth,
                     open \cup {ResolutionKey(name, version)})

ProductFrom(deps, i, depth, open) ==
    IF i > Len(deps) THEN 1
    ELSE (IF Resolvable(deps[i])
          THEN SumFrom(deps[i].name,
                       Slice(getMatchingVersions(CacheGet(metadataCache, deps[i].name),
                                                 deps[i].range), TopVersions),
                       1, depth, open)
          ELSE 1)
         * ProductFrom(deps, i + 1, depth, open)

SumFrom(name, versions, j, depth, open) ==
    IF j > Len(versions) THEN 0
    ELSE CandidateCount(name, versions[j], depth + 1, open)
         + SumFrom(name, versions, j + 1, depth, open)

\* C17: a drained generator whose budget does not bind, on a root of known
\* version, has yielded one tree per combination of child choices: as many
\* as the product over the resolvable dependencies of the sums over their
\* three highest matching versions; one tree if no dependency is resolvable.
C17_CrossProductCount ==
    (/\ op = "generateAllPossibleTrees" /\ outcome.k = "done"
     /\ KnownVersion(createEmptyNode(args.packageName, args.version))
     /\ CandidateCount(args.packageName, args.version, 0, {}) < args.maxTrees)
        => Len(emitted) = CandidateCount(args.packageName, args.version, 0, {})

\* ---- C18
\* The enumeration of the current call's root with a budget that does not
\* bind, from the cache the call started with and the registry as it stands.
UnboundedEnumeration ==
    Drain(generateAllPossibleTrees(args.packageName, args.version),
          Shared(registry, startCache, 0, args.maxDepth, DefaultMaxTrees, NoRequests, {}),
          << >>)

Min(a, b) == IF a <= b THEN a ELSE b

\* C18: with metadata that does not change during the call and maxTrees = k
\* >= 1, a drained generator has yielded the first min(k, n) of the n trees it
\* yields with a budget that does not bind, each of them unaltered.
C18_BudgetTruncationIsPrefix ==
    (/\ op = "generateAllPossibleTrees" /\ outcome.k = "done" /\ clean
     /\ args.maxTrees >= 1)
        => emitted = SubSeq(UnboundedEnumeration.trees, 1,
                            Min(args.maxTrees, Len(UnboundedEnumeration.trees)))

C18_Witness ==
    /\ op = "generateAllPossibleTrees" /\ outcome.k = "done" /\ clean
    /\ args.maxTrees = MaxTreesArg
    /\ Len(emitted) = MaxTreesArg
    /\ Len(UnboundedEnumeration.trees) > MaxTreesArg
    /\ \E c \in Children(emitted[MaxTreesArg]) : Children(c) # {}

\* ---- C19
\* Two trees equal as trees of Maps: the same name and version, children under
\* the same names, and equal children under each name, whatever the order in
\* which the Maps were filled.
RECURSIVE StructurallyEqual(_, _)
StructurallyEqual(a, b) ==
    /\ a.name = b.name
    /\ a.version = b.version
    /\ MapKeys(a.dependencies) = MapKeys(b.dependencies)
    /\ \A k \in MapKeys(a.dependencies) :
           StructurallyEqual(MapGet(a.dependencies, k), MapGet(b.dependencies, k))

\* resolveDependencyTree on the root of the current call, from the cache the
\* call started with and the registry as it stands.
Greedy ==
    resolveDependencyTree(args.packageName, args.version, 0, {},
                          Shared(registry, startCache, 0, args.maxDepth, args.maxTrees,
                                 NoRequests, {}))

\* The first resumption of generateAllPossibleTrees on the root of the current
\* call with a budget of one tree, from the same cache and registry.
FirstCandidate ==
    NextExplore(generateAllPossibleTrees(args.packageName, args.version),
                Shared(registry, startCache, 0, args.maxDepth, ResolveAndHashMaxTrees,
                       NoRequests, {}))

\* C19: for a root whose version its metadata lists, a budget of at least one
\* tree and fetch outcomes that do not change, the first tree the generator
\* yields (the tree resolveAndHash hashes) is structurally equal to the tree
\* resolveDependencyTree returns, and a generator that has ended has yielded
\* one; conversely the tree resolveDependencyTree has returned is the first
\* candidate of the generator.
C19_GreedyIsFirstCandidate ==
    /\ (/\ UsesGenerator /\ clean /\ Budget >= 1
         /\ KnownVersion(createEmptyNode(args.packageName, args.version)))
            => /\ Len(emitted) >= 1 =>
                      /\ Greedy.k = "return"
                      /\ StructurallyEqual(emitted[1], Greedy.v)
               /\ outcome.k \in {"done", "null", "found", "tree"} => Len(emitted) >= 1
    /\ (op = "resolveDependencyTree" /\ outcome.k = "node" /\ clean)
            => /\ FirstCandidate.k = "yield"
               /\ StructurallyEqual(FirstCandidate.v, outcome.tree)

C19_Witness ==
    /\ op = "resolveAndHash" /\ outcome.k = "tree" /\ clean
    /\ Greedy.k = "return"
    /\ emitted[1] # Greedy.v
    /\ \E c \in Children(emitted[1]) : Children(c) # {}

\* ---- C20
\* The number of nodes of a tree: itself and the nodes of each child.
RECURSIVE NodeCount(_)
RECURSIVE NodeCountFrom(_, _)
NodeCount(node) == 1 + NodeCountFrom(node.dependencies, 1)

NodeCountFrom(entries, i) ==
    IF i > Len(entries) THEN 0
    ELSE NodeCount(entries[i].value) + NodeCountFrom(entries, i + 1)

\* The name that comes first among names.
FirstName(names) == CHOOSE k \in names : \A o \in names : NameRank(k) <= NameRank(o)

\* The pre-order walk of a tree at `depth`, the children under the names
\* `names` taken in ascending order of name: for each node its depth, name
\* and version.
RECURSIVE PreOrder(_, _)
RECURSIVE PreOrderOf(_, _, _)
PreOrder(node, depth) ==
    << [depth |-> depth, name |-> node.name, version |-> node.version] >>
    \o PreOrderOf(node, MapKeys(node.dependencies), depth + 1)

PreOrderOf(node, names, depth) ==
    IF names = {} THEN << >>
    ELSE PreOrder(MapGet(node.dependencies, FirstName(names)), depth)
         \o PreOrderOf(node, names \ {FirstName(names)}, depth)

\* The trees the claim is checked on: those the current call produced, with
\* their children Maps filled in every order.
Shapes == UNION {Representations(tree) : tree \in Produced}

\* C20: serializeTree(T) has one line for each node of T, the lines are the
\* nodes in pre-order with siblings in ascending order of name, and the
\* indentation of each line is two spaces for each level of its node.
C20_SerializationShape ==
    \A tree \in Shapes :
        LET lines == serializeTree(tree)
            walk == PreOrder(tree, 0)
        IN  /\ Len(lines) = NodeCount(tree)
            /\ Len(lines) = Len(walk)
            /\ \A i \in 1..Len(lines) :
                   /\ lines[i].name = walk[i].name
                   /\ lines[i].version = walk[i].version
                   /\ lines[i].prefix = 2 * walk[i].depth

C20_Witness ==
    \E tree \in Shapes :
        /\ Len(tree.dependencies) = 2
        /\ NameRank(tree.dependencies[1].key) > NameRank(tree.dependencies[2].key)
        /\ \E i \in 1..Len(serializeTree(tree)) : serializeTree(tree)[i].prefix = 4
        /\ NodeCount(tree) > Cardinality(Nodes(tree))

====
